---------------------------- MODULE Spec2Model ----------------------------
(***************************************************************************)
(* A model of the notebook s5p-analysis.ipynb run top to bottom: the       *)
(* gridded NO2 dataset is loaded, resampled to days, cut to a time slice,  *)
(* summarised (temporal mean, min/max, region masks, month and weekday     *)
(* groupings), plotted, and each plot is written to an image file.         *)
(*                                                                         *)
(* Values are exact rationals <<numerator, denominator>>; the missing      *)
(* value NaN is <<0, 0>>.  Times are hours since 2020-06-01T00:00, a       *)
(* Monday.  Coordinates are integers in units of 1e-7 degree.              *)
(***************************************************************************)
EXTENDS Integers, Sequences, FiniteSets, TLC

(***************************************************************************)
(* Bounds of the model.                                                    *)
(***************************************************************************)
MaxProducts == 3
MaxVal == 2
MaxLat == 2
MaxLon == 3
MaxRegions == 2

(***************************************************************************)
(* Calendar constants of the resample, slice and groupby calls.            *)
(***************************************************************************)
HoursPerDay == 24
DaysPerWeek == 7
SliceFirstDay == 0
SliceLastDay == 6

(***************************************************************************)
(* Exact arithmetic on values.                                             *)
(***************************************************************************)
NaN == <<0, 0>>

IsNaN(v) == v[2] = 0

RECURSIVE GCD(_, _)
GCD(a, b) == IF b = 0 THEN a ELSE GCD(b, a % b)

Norm(n, d) == LET g == GCD(n, d) IN <<n \div g, d \div g>>

Q(n) == <<n, 1>>

Add(a, b) == Norm(a[1] * b[2] + b[1] * a[2], a[2] * b[2])

DivInt(a, k) == Norm(a[1], a[2] * k)

Leq(a, b) == a[1] * b[2] <= b[1] * a[2]

RECURSIVE SumQ(_)
SumQ(s) == IF s = <<>> THEN Q(0) ELSE Add(Head(s), SumQ(Tail(s)))

NotNaN(v) == ~IsNaN(v)

\* A mean with skipna=False: one NaN entry makes the mean NaN.
NanMeanSkipless(s) ==
    IF s = <<>> \/ \E k \in 1..Len(s) : IsNaN(s[k]) THEN NaN
    ELSE DivInt(SumQ(s), Len(s))

\* numpy nanmean / xarray mean with skipna: NaN entries are left out, and
\* the mean of nothing is NaN.
NanMean(s) ==
    LET nn == SelectSeq(s, NotNaN)
    IN  IF nn = <<>> THEN NaN ELSE DivInt(SumQ(nn), Len(nn))

\* numpy nanmin / nanmax over a sequence: NaN entries are ignored, NaN when
\* every entry is NaN.
NanMin(s) ==
    LET nn == SelectSeq(s, NotNaN)
    IN  IF nn = <<>> THEN NaN
        ELSE nn[CHOOSE k \in 1..Len(nn) : \A m \in 1..Len(nn) : Leq(nn[k], nn[m])]

NanMax(s) ==
    LET nn == SelectSeq(s, NotNaN)
    IN  IF nn = <<>> THEN NaN
        ELSE nn[CHOOSE k \in 1..Len(nn) : \A m \in 1..Len(nn) : Leq(nn[m], nn[k])]

(***************************************************************************)
(* Sequence helpers.                                                       *)
(***************************************************************************)
Range(s) == {s[k] : k \in 1..Len(s)}

RECURSIVE Flatten(_)
Flatten(ss) == IF ss = <<>> THEN <<>> ELSE Head(ss) \o Flatten(Tail(ss))

\* The elements of the finite set of integers S, ascending.
RECURSIVE SortedSeq(_)
SortedSeq(S) ==
    IF S = {} THEN <<>>
    ELSE LET m == CHOOSE x \in S : \A y \in S : x <= y
         IN  <<m>> \o SortedSeq(S \ {m})

\* The indices k at which the sequence of booleans flags is true, ascending.
Indices(flags) == SortedSeq({k \in 1..Len(flags) : flags[k]})

(***************************************************************************)
(* Calendar.                                                               *)
(***************************************************************************)
DayOf(t) == t \div HoursPerDay

DayStart(t) == DayOf(t) * HoursPerDay

\* Monday = 0 .. Sunday = 6; day 0 is Monday 2020-06-01.
Weekday(t) == DayOf(t) % DaysPerWeek

\* First days of May, June, July and August 2020.
MonthStarts == <<-31, 0, 30, 61>>

MonthStart(t) ==
    LET m == CHOOSE k \in 1..Len(MonthStarts) :
                 /\ MonthStarts[k] <= DayOf(t)
                 /\ \A j \in 1..Len(MonthStarts) :
                        MonthStarts[j] <= DayOf(t) => MonthStarts[j] <= MonthStarts[k]
    IN  MonthStarts[m] * HoursPerDay

(***************************************************************************)
(* Datasets: a time axis, a latitude axis, a longitude axis, the values    *)
(* of the variable as values[time][latitude][longitude], and the           *)
(* variable's attributes.                                                  *)
(***************************************************************************)
NLat(ds) == Len(ds.latitude)

NLon(ds) == Len(ds.longitude)

NTime(ds) == Len(ds.time)

\* The values of cell (i, j) along the entries idx of the time axis.
Along(ds, idx, i, j) == [k \in 1..Len(idx) |-> ds.values[idx[k]][i][j]]

\* Mean over the entries idx of the time axis, cell by cell.
MeanOver(ds, idx) ==
    [i \in 1..NLat(ds) |-> [j \in 1..NLon(ds) |-> NanMean(Along(ds, idx, i, j))]]

\* DS.mean(dim='time')
MeanTime(ds) == MeanOver(ds, [k \in 1..NTime(ds) |-> k])

\* The labels of the bins of a resample: every bin from the first entry's to
\* the last entry's, empty ones included.
DayBins(ds) ==
    IF ds.time = <<>> THEN <<>>
    ELSE LET lo == DayOf(ds.time[1])
             hi == DayOf(ds.time[NTime(ds)])
         IN  [k \in 1..(hi - lo + 1) |-> (lo + k - 1) * HoursPerDay]

MonthBins(ds) ==
    IF ds.time = <<>> THEN <<>>
    ELSE SortedSeq({MonthStarts[k] * HoursPerDay : k \in
            {k \in 1..Len(MonthStarts) :
                /\ MonthStart(ds.time[1]) <= MonthStarts[k] * HoursPerDay
                /\ MonthStarts[k] * HoursPerDay <= MonthStart(ds.time[NTime(ds)])}})

\* DS.resample(time='1D').mean(dim='time', skipna=None)
ResampleDaily(ds) ==
    LET bins == DayBins(ds)
        In(b) == Indices([p \in 1..NTime(ds) |-> DayStart(ds.time[p]) = b])
    IN  [ds EXCEPT !.time = bins,
                   !.values = [k \in 1..Len(bins) |-> MeanOver(ds, In(bins[k]))]]

\* DS.resample({'time': '1MS'}).mean(dim='time')
ResampleMonthly(ds) ==
    LET bins == MonthBins(ds)
        In(b) == Indices([p \in 1..NTime(ds) |-> MonthStart(ds.time[p]) = b])
    IN  [ds EXCEPT !.time = bins,
                   !.values = [k \in 1..Len(bins) |-> MeanOver(ds, In(bins[k]))]]

\* A slice that stops before its end date, as a positional slice would.
InSliceOpenEnd(t) ==
    SliceFirstDay * HoursPerDay <= t /\ t < SliceLastDay * HoursPerDay

\* DS.sel(time=slice('2020-06-01', '2020-06-07')): label-based, both ends
\* included, the end date standing for its whole day.
InSlice(t) ==
    SliceFirstDay * HoursPerDay <= t /\ t < (SliceLastDay + 1) * HoursPerDay

SelSlice(ds) ==
    LET idx == Indices([p \in 1..NTime(ds) |-> InSlice(ds.time[p])])
    IN  [ds EXCEPT !.time = [k \in 1..Len(idx) |-> ds.time[idx[k]]],
                   !.values = [k \in 1..Len(idx) |-> ds.values[idx[k]]]]

\* DS.mean(dim='longitude').mean(dim='latitude'): one value per time entry,
\* the mean over latitudes of the means over longitudes.
SpatialMean(ds) ==
    [k \in 1..NTime(ds) |->
        NanMean([i \in 1..NLat(ds) |-> NanMean(ds.values[k][i])])]

\* Iterating a resample or groupby of the series vals, keys[k] being the
\* group key of entry k: one group per key that occurs, by ascending key,
\* each holding its entries in time order.
GroupsBy(keys, vals) ==
    LET uniq == SortedSeq(Range(keys))
        In(g) == Indices([k \in 1..Len(keys) |-> keys[k] = uniq[g]])
    IN  [g \in 1..Len(uniq) |-> [k \in 1..Len(In(g)) |-> vals[In(g)[k]]]]

(***************************************************************************)
(* Region masks.                                                           *)
(***************************************************************************)
\* list(product(DS.latitude.values, DS.longitude.values)): the pairs
\* (latitude, longitude), the latitude varying slowest.
Product(lats, lons) ==
    Flatten([i \in 1..Len(lats) |-> [j \in 1..Len(lons) |-> <<lats[i], lons[j]>>]])

\* x = [i for j, i in points]
XsOf(points) == [k \in 1..Len(points) |-> points[k][2]]

\* y = [j for j, i in points]
YsOf(points) == [k \in 1..Len(points) |-> points[k][1]]

\* shapely.vectorized.contains(geometry, x, y); a geometry is the set of the
\* points <<x, y>> inside it.
Contains(geometry, x, y) == [k \in 1..Len(x) |-> <<x[k], y[k]>> \in geometry]

\* A reshape to (n, m) that fills columns first.
ReshapeColumnMajor(flat, n, m) ==
    [i \in 1..n |-> [j \in 1..m |-> flat[(j - 1) * n + i]]]

\* numpy reshape of a flat array to (n, m), row-major.
Reshape(flat, n, m) ==
    [i \in 1..n |-> [j \in 1..m |-> flat[(i - 1) * m + j]]]

RegionMask(ds, geometry) ==
    LET points == Product(ds.latitude, ds.longitude)
    IN  Reshape(Contains(geometry, XsOf(points), YsOf(points)), NLat(ds), NLon(ds))

\* np.any(mask)
AnyTrue(mask) == \E i \in 1..Len(mask) : \E j \in 1..Len(mask[i]) : mask[i][j]

\* grid.where(mask, drop=True) for a (latitude, longitude) grid: the value
\* where the mask is true and NaN elsewhere, the rows and columns where the
\* mask is false throughout being dropped.
WhereDrop(ds, grid, mask) ==
    LET SomeLon(i) == \E j \in 1..NLon(ds) : mask[i][j]
        SomeLat(j) == \E i \in 1..NLat(ds) : mask[i][j]
        rows == SortedSeq({i \in 1..NLat(ds) : SomeLon(i)})
        cols == SortedSeq({j \in 1..NLon(ds) : SomeLat(j)})
    IN  [latitude  |-> [a \in 1..Len(rows) |-> ds.latitude[rows[a]]],
         longitude |-> [b \in 1..Len(cols) |-> ds.longitude[cols[b]]],
         values    |-> [a \in 1..Len(rows) |-> [b \in 1..Len(cols) |->
                          IF mask[rows[a]][cols[b]]
                          THEN grid[rows[a]][cols[b]] ELSE NaN]]]

(***************************************************************************)
(* Points of interest.                                                     *)
(***************************************************************************)
\* Lyon, Arcelor Mittal Dunkerque, A4/A35 Vendenheim, Foret des Landes,
\* Pic du Midi de Bigorre.
lon_points == <<48357000, 23212992, 77337068, 3380000, 1411000>>

lat_points == <<457640000, 510244429, 486716962, 436034000, 429369000>>

LABEL_POINTS == <<"U", "I", "R", "F", "M">>

Dist(a, b) == IF a <= b THEN b - a ELSE a - b

\* .sel(..., method='nearest') on one axis: the index of the coordinate
\* nearest to the target, the larger coordinate on a tie.
Nearest(coords, target) ==
    CHOOSE k \in 1..Len(coords) :
        \A m \in 1..Len(coords) :
            \/ Dist(coords[k], target) < Dist(coords[m], target)
            \/ /\ Dist(coords[k], target) = Dist(coords[m], target)
               /\ coords[m] <= coords[k]

\* The pairs with latitude and longitude exchanged.
ZipLatLon(lons, lats) == [k \in 1..Len(lons) |-> <<lats[k], lons[k]>>]

\* zip(lon_points, lat_points)
Zip(lons, lats) == [k \in 1..Len(lons) |-> <<lons[k], lats[k]>>]

(***************************************************************************)
(* Names, folders and formats.                                             *)
(***************************************************************************)
folder_plots == "plots"

FORMAT_EXPORT == "tiff"

WEEKDAYS_LABEL == <<"Mon", "Tue", "Wed", "Thu", "Fri", "Sat", "Sun">>

\* "{folder_plots}/<name>.{format}"
Path(name) == <<folder_plots, name, FORMAT_EXPORT>>

\* The subplot grid of the regional and of the monthly maps.
NROWS == 5
NCOLS == 3

\* time.dt.strftime('%b %Y') of a month start.
MonthLabels == <<"May 2020", "Jun 2020", "Jul 2020", "Aug 2020">>

StrfMonth(t) ==
    MonthLabels[CHOOSE k \in 1..Len(MonthStarts) : MonthStarts[k] * HoursPerDay = t]

(***************************************************************************)
(* State.                                                                  *)
(***************************************************************************)
VARIABLES
    pc,             \* the cell that runs next, "done" or "error"
    err,            \* the exception that stopped the run, "" when none
    ncfile,         \* the dataset stored in the .nc file
    shp,            \* the records of the shapefile
    fs,             \* the file system: folders and files that exist
    written,        \* the savefig calls of the run, in order
    loads,          \* the number of open_dataset calls
    DS, LABEL, records, val_min, val_max,
    boxes_months, boxes_weekday, DS_month,
    fig,            \* the current figure
    im              \* the last pcolormesh, <<>> while the name is unbound

vars == <<pc, err, ncfile, shp, fs, written, loads, DS, LABEL, records,
          val_min, val_max, boxes_months, boxes_weekday, DS_month, fig, im>>

inputs == <<ncfile, shp>>

NoDS == [time |-> <<>>, latitude |-> <<>>, longitude |-> <<>>, values |-> <<>>,
         attrs |-> [units |-> "", long_name |-> ""]]

NoFig == [kind |-> "none"]

(***************************************************************************)
(* The cells, top to bottom.                                               *)
(***************************************************************************)
\* A load after which the run goes on at the time-slice cell.
LoadDatasetSkipResample ==
    /\ pc = "load"
    /\ DS' = ncfile
    /\ loads' = loads + 1
    /\ pc' = "sel"
    /\ UNCHANGED <<err, inputs, fs, written, LABEL, records, val_min, val_max,
                   boxes_months, boxes_weekday, DS_month, fig, im>>

\* DS = xr.open_dataset(...)
LoadDataset ==
    /\ pc = "load"
    /\ DS' = ncfile
    /\ loads' = loads + 1
    /\ pc' = "resample"
    /\ UNCHANGED <<err, inputs, fs, written, LABEL, records, val_min, val_max,
                   boxes_months, boxes_weekday, DS_month, fig, im>>

\* DS = DS.resample(time='1D').mean(dim='time', skipna=None)
DailyResample ==
    /\ pc = "resample"
    /\ DS' = ResampleDaily(DS)
    /\ pc' = "sel"
    /\ UNCHANGED <<err, inputs, fs, written, loads, LABEL, records, val_min,
                   val_max, boxes_months, boxes_weekday, DS_month, fig, im>>

\* DS = DS.sel(time=slice('2020-06-01', '2020-06-07'))
TimeSlice ==
    /\ pc = "sel"
    /\ DS' = SelSlice(DS)
    /\ pc' = "attrs"
    /\ UNCHANGED <<err, inputs, fs, written, loads, LABEL, records, val_min,
                   val_max, boxes_months, boxes_weekday, DS_month, fig, im>>

\* DS[VARIABLE].attrs['units'] = ...; DS[VARIABLE].attrs['long_name'] = ...;
\* LABEL = '{long_name}\n [{unit}]'.format(...)
SetAttrs ==
    /\ pc = "attrs"
    /\ DS' = [DS EXCEPT !.attrs = [units |-> "mol/m$^{2}$",
                                   long_name |-> "Tropospheric vertical column of NO$_2$"]]
    /\ LABEL' = <<DS'.attrs.long_name, DS'.attrs.units>>
    /\ pc' = "makedirs"
    /\ UNCHANGED <<err, inputs, fs, written, loads, records, val_min, val_max,
                   boxes_months, boxes_weekday, DS_month, fig, im>>

\* makedirs(folder_plots) without exist_ok: an existing folder is an error.
MakedirsNoExistOk ==
    /\ pc = "makedirs"
    /\ IF folder_plots \in fs.dirs
       THEN /\ pc' = "error"
            /\ err' = "FileExistsError"
            /\ fs' = fs
       ELSE /\ pc' = "global_map"
            /\ err' = err
            /\ fs' = [fs EXCEPT !.dirs = @ \cup {folder_plots}]
    /\ UNCHANGED <<inputs, written, loads, DS, LABEL, records, val_min, val_max,
                   boxes_months, boxes_weekday, DS_month, fig, im>>

\* makedirs(folder_plots, exist_ok=True)
Makedirs ==
    /\ pc = "makedirs"
    /\ fs' = [fs EXCEPT !.dirs = @ \cup {folder_plots}]
    /\ pc' = "global_map"
    /\ UNCHANGED <<err, inputs, written, loads, DS, LABEL, records, val_min,
                   val_max, boxes_months, boxes_weekday, DS_month, fig, im>>

\* plt.savefig("{folder_plots}/<name>.{format}".format(...)): the current
\* figure is written to the path, which must lie in an existing folder.
SaveFig(name, next) ==
    /\ IF folder_plots \in fs.dirs
       THEN /\ written' = Append(written, [path |-> Path(name), figure |-> fig])
            /\ fs' = [fs EXCEPT !.files = @ \cup {Path(name)}]
            /\ pc' = next
            /\ err' = err
       ELSE /\ pc' = "error"
            /\ err' = "FileNotFoundError"
            /\ UNCHANGED <<written, fs>>
    /\ UNCHANGED <<inputs, loads, DS, LABEL, records, val_min, val_max,
                   boxes_months, boxes_weekday, DS_month, fig, im>>

\* Global map averaged over time: data = DS.mean(dim='time'), then the plot.
GlobalMap ==
    /\ pc = "global_map"
    /\ fig' = [kind |-> "global", latitude |-> DS.latitude,
               longitude |-> DS.longitude, values |-> MeanTime(DS)]
    /\ pc' = "global_save"
    /\ UNCHANGED <<err, inputs, fs, written, loads, DS, LABEL, records, val_min,
                   val_max, boxes_months, boxes_weekday, DS_month, im>>

SaveGlobalMap ==
    /\ pc = "global_save"
    /\ SaveFig("france_global_NO2", "read_shp")

\* records = list(reader.records())
ReadShapefile ==
    /\ pc = "read_shp"
    /\ records' = shp
    /\ pc' = "minmax"
    /\ UNCHANGED <<err, inputs, fs, written, loads, DS, LABEL, val_min, val_max,
                   boxes_months, boxes_weekday, DS_month, fig, im>>

\* values = DS.mean(dim='time')[VARIABLE].values; val_min = np.nanmin(values);
\* val_max = np.nanmax(values)
KeepMinMax ==
    /\ pc = "minmax"
    /\ val_min' = NanMin(Flatten(MeanTime(DS)))
    /\ val_max' = NanMax(Flatten(MeanTime(DS)))
    /\ pc' = "regions"
    /\ UNCHANGED <<err, inputs, fs, written, loads, DS, LABEL, records,
                   boxes_months, boxes_weekday, DS_month, fig, im>>

\* The sub-map of one region: the temporal mean inside the region's mask,
\* drawn with the limits kept in val_min and val_max.
RegionAxis(region, lo, hi) ==
    LET masked == WhereDrop(DS, MeanTime(DS), RegionMask(DS, region.geometry))
    IN  [title |-> region.nom, latitude |-> masked.latitude,
         longitude |-> masked.longitude, values |-> masked.values,
         vmin |-> lo, vmax |-> hi]

\* The same loop with every sub-map drawn with the limits of its own values.
RegionMapsOwnLimits ==
    /\ pc = "regions"
    /\ LET drawn == Indices([r \in 1..Len(records) |->
                                AnyTrue(RegionMask(DS, records[r].geometry))])
           Own(r) == RegionAxis(records[r], val_min, val_max)
       IN  /\ fig' = [kind |-> "regions",
                      masks |-> [r \in 1..Len(records) |->
                                    RegionMask(DS, records[r].geometry)],
                      axes |-> [a \in 1..Len(drawn) |->
                          RegionAxis(records[drawn[a]],
                                     NanMin(Flatten(Own(drawn[a]).values)),
                                     NanMax(Flatten(Own(drawn[a]).values)))],
                      label |-> LABEL]
           /\ im' = IF drawn = <<>> THEN im ELSE <<"regions">>
           /\ IF Len(drawn) > NROWS * NCOLS
              THEN pc' = "error" /\ err' = "IndexError"
              ELSE IF im' = <<>>
                   THEN pc' = "error" /\ err' = "NameError"
                   ELSE pc' = "regions_save" /\ err' = err
    /\ UNCHANGED <<inputs, fs, written, loads, DS, LABEL, records, val_min,
                   val_max, boxes_months, boxes_weekday, DS_month>>

\* The loop over the shapefile records: a sub-map for every region whose
\* mask is true somewhere, on the next free subplot; then the colour bar of
\* the last pcolormesh, a NameError when no sub-map was drawn and an
\* IndexError when the sub-maps outnumber the subplots.
RegionMaps ==
    /\ pc = "regions"
    /\ LET drawn == Indices([r \in 1..Len(records) |->
                                AnyTrue(RegionMask(DS, records[r].geometry))])
       IN  /\ fig' = [kind |-> "regions",
                      masks |-> [r \in 1..Len(records) |->
                                    RegionMask(DS, records[r].geometry)],
                      axes |-> [a \in 1..Len(drawn) |->
                                    RegionAxis(records[drawn[a]], val_min, val_max)],
                      label |-> LABEL]
           /\ im' = IF drawn = <<>> THEN im ELSE <<"regions">>
           /\ IF Len(drawn) > NROWS * NCOLS
              THEN pc' = "error" /\ err' = "IndexError"
              ELSE IF im' = <<>>
                   THEN pc' = "error" /\ err' = "NameError"
                   ELSE pc' = "regions_save" /\ err' = err
    /\ UNCHANGED <<inputs, fs, written, loads, DS, LABEL, records, val_min,
                   val_max, boxes_months, boxes_weekday, DS_month>>

SaveRegionMaps ==
    /\ pc = "regions_save"
    /\ SaveFig("regions_global_NO2", "boxes_months")

\* boxes_months = [group[VARIABLE].values for _, group in
\*     DS.mean(dim='longitude').mean(dim='latitude').resample({'time': '1MS'})]
BoxesMonths ==
    /\ pc = "boxes_months"
    /\ boxes_months' = GroupsBy([k \in 1..NTime(DS) |-> MonthStart(DS.time[k])],
                                SpatialMean(DS))
    /\ pc' = "box_months"
    /\ UNCHANGED <<err, inputs, fs, written, loads, DS, LABEL, records, val_min,
                   val_max, boxes_weekday, DS_month, fig, im>>

\* set_xticklabels(labels) on a boxplot: the k-th box gets the k-th label,
\* labels beyond the last box being left unused.
TickLabels(labels, nboxes) ==
    [k \in 1..(IF nboxes < Len(labels) THEN nboxes ELSE Len(labels)) |-> labels[k]]

\* The monthly boxplot, labelled with the months of the monthly resample.
MonthlyBoxplot ==
    /\ pc = "box_months"
    /\ LET bins == MonthBins(DS)
       IN  fig' = [kind |-> "box_months", boxes |-> boxes_months,
                   ticklabels |-> TickLabels([k \in 1..Len(bins) |-> StrfMonth(bins[k])],
                                             Len(boxes_months)),
                   label |-> LABEL]
    /\ pc' = "box_months_save"
    /\ UNCHANGED <<err, inputs, fs, written, loads, DS, LABEL, records, val_min,
                   val_max, boxes_months, boxes_weekday, DS_month, im>>

SaveMonthlyBoxplot ==
    /\ pc = "box_months_save"
    /\ SaveFig("box_plot_NO2", "boxes_weekday")

\* boxes_weekday = [group[VARIABLE].values for _, group in
\*     DS.mean(dim='longitude').mean(dim='latitude').groupby('time.weekday')]
BoxesWeekday ==
    /\ pc = "boxes_weekday"
    /\ boxes_weekday' = GroupsBy([k \in 1..NTime(DS) |-> Weekday(DS.time[k])],
                                 SpatialMean(DS))
    /\ pc' = "box_weekday"
    /\ UNCHANGED <<err, inputs, fs, written, loads, DS, LABEL, records, val_min,
                   val_max, boxes_months, DS_month, fig, im>>

\* The weekday boxplot, labelled with WEEKDAYS_LABEL.
WeekdayBoxplot ==
    /\ pc = "box_weekday"
    /\ fig' = [kind |-> "box_weekdays", boxes |-> boxes_weekday,
               ticklabels |-> TickLabels(WEEKDAYS_LABEL, Len(boxes_weekday)),
               label |-> LABEL]
    /\ pc' = "box_weekday_save"
    /\ UNCHANGED <<err, inputs, fs, written, loads, DS, LABEL, records, val_min,
                   val_max, boxes_months, boxes_weekday, DS_month, im>>

SaveWeekdayBoxplot ==
    /\ pc = "box_weekday_save"
    /\ SaveFig("box_plot_weekdays_NO2", "ds_month")

\* A monthly resample assigned to DS as well.
MonthlyResampleInPlace ==
    /\ pc = "ds_month"
    /\ DS_month' = ResampleMonthly(DS)
    /\ DS' = DS_month'
    /\ pc' = "month_minmax"
    /\ UNCHANGED <<err, inputs, fs, written, loads, LABEL, records, val_min,
                   val_max, boxes_months, boxes_weekday, fig, im>>

\* DS_month = DS.resample({'time': '1MS'}).mean(dim='time')
MonthlyResample ==
    /\ pc = "ds_month"
    /\ DS_month' = ResampleMonthly(DS)
    /\ pc' = "month_minmax"
    /\ UNCHANGED <<err, inputs, fs, written, loads, DS, LABEL, records, val_min,
                   val_max, boxes_months, boxes_weekday, fig, im>>

\* nat_avg_by_month_max = DS_month[VARIABLE].max(dim='longitude').max(dim='latitude')
nat_avg_by_month_max(ds) ==
    [m \in 1..NTime(ds) |->
        NanMax([i \in 1..NLat(ds) |-> NanMax(ds.values[m][i])])]

\* The minimum line written as a copy of the maximum line.
nat_avg_by_month_min_pasted(ds) == nat_avg_by_month_max(ds)

\* nat_avg_by_month_min = DS_month[VARIABLE].min(dim='longitude').min(dim='latitude')
nat_avg_by_month_min(ds) ==
    [m \in 1..NTime(ds) |->
        NanMin([i \in 1..NLat(ds) |-> NanMin(ds.values[m][i])])]

\* val_min = np.nanmin(nat_avg_by_month_min); val_max = np.nanmax(nat_avg_by_month_max)
KeepMonthMinMax ==
    /\ pc = "month_minmax"
    /\ val_min' = NanMin(nat_avg_by_month_min(DS_month))
    /\ val_max' = NanMax(nat_avg_by_month_max(DS_month))
    /\ pc' = "months"
    /\ UNCHANGED <<err, inputs, fs, written, loads, DS, LABEL, records,
                   boxes_months, boxes_weekday, DS_month, fig, im>>

\* The loop over DS_month.time: one map per month, drawn with the limits
\* kept in val_min and val_max; then the colour bar of the last pcolormesh.
MonthMaps ==
    /\ pc = "months"
    /\ fig' = [kind |-> "months",
               axes |-> [m \in 1..NTime(DS_month) |->
                   [title |-> StrfMonth(DS_month.time[m]),
                    latitude |-> DS_month.latitude,
                    longitude |-> DS_month.longitude,
                    values |-> DS_month.values[m],
                    vmin |-> val_min, vmax |-> val_max]],
               label |-> LABEL]
    /\ im' = IF NTime(DS_month) = 0 THEN im ELSE <<"months">>
    /\ IF NTime(DS_month) > NROWS * NCOLS
       THEN pc' = "error" /\ err' = "IndexError"
       ELSE IF im' = <<>>
            THEN pc' = "error" /\ err' = "NameError"
            ELSE pc' = "months_save" /\ err' = err
    /\ UNCHANGED <<inputs, fs, written, loads, DS, LABEL, records, val_min,
                   val_max, boxes_months, boxes_weekday, DS_month>>

SaveMonthMaps ==
    /\ pc = "months_save"
    /\ SaveFig("france_month_global_NO2", "dotted")

RECURSIVE SumInt(_)
SumInt(s) == IF s = <<>> THEN 0 ELSE Head(s) + SumInt(Tail(s))

\* The map with the points of interest: the temporal mean, and for every
\* point its label, on the left when the point lies west of the mean
\* longitude (x < milieu) and on the right otherwise.
DottedMap ==
    /\ pc = "dotted"
    /\ LET pts == Zip(lon_points, lat_points)
       IN  fig' = [kind |-> "dotted", latitude |-> DS.latitude,
                   longitude |-> DS.longitude, values |-> MeanTime(DS),
                   points |-> [i \in 1..Len(pts) |->
                       [x |-> pts[i][1], y |-> pts[i][2], text |-> LABEL_POINTS[i],
                        side |-> IF pts[i][1] * NLon(DS) < SumInt(DS.longitude)
                                 THEN "gauche" ELSE "droite"]]]
    /\ pc' = "dotted_save"
    /\ UNCHANGED <<err, inputs, fs, written, loads, DS, LABEL, records, val_min,
                   val_max, boxes_months, boxes_weekday, DS_month, im>>

SaveDottedMap ==
    /\ pc = "dotted_save"
    /\ SaveFig("dotted_france_global_NO2", "evol")

\* One line of the PI evolution plot:
\* DS.resample({'time': '1MS'}).mean(dim='time')[VARIABLE]
\*   .sel(latitude=lat, longitude=lon, method='nearest').plot(label=...)
EvolLine(index, lon, lat) ==
    LET monthly == ResampleMonthly(DS)
        a == Nearest(DS.latitude, lat)
        b == Nearest(DS.longitude, lon)
    IN  [label |-> LABEL_POINTS[index],
         latitude |-> DS.latitude[a], longitude |-> DS.longitude[b],
         x |-> monthly.time,
         y |-> [m \in 1..NTime(monthly) |-> monthly.values[m][a][b]]]

\* for index, (lon, lat) in enumerate(zip(lon_points, lat_points)): ...
PIEvolution ==
    /\ pc = "evol"
    /\ LET pts == Zip(lon_points, lat_points)
       IN  fig' = [kind |-> "evol",
                   lines |-> [i \in 1..Len(pts) |-> EvolLine(i, pts[i][1], pts[i][2])],
                   label |-> LABEL]
    /\ pc' = "evol_save"
    /\ UNCHANGED <<err, inputs, fs, written, loads, DS, LABEL, records, val_min,
                   val_max, boxes_months, boxes_weekday, DS_month, im>>

SavePIEvolution ==
    /\ pc = "evol_save"
    /\ SaveFig("evol_points_interet_NO2", "done")

(***************************************************************************)
(* The inputs of a run: the dataset of the .nc file, the shapefile, and    *)
(* the file system the run starts in.                                      *)
(***************************************************************************)
LatCoord(i) == 430000000 + (i - 1) * 30000000

LonCoord(j) == (j - 1) * 30000000 - 20000000

RawVals == {NaN} \cup {Q(v) : v \in 1..MaxVal}

FileAttrs == [units |-> "mol/m2", long_name |-> "NO2 tropospheric column"]

\* Product times: 31 May 10:00, 1 June 10:00 and 12:00, 2 June 11:00,
\* 7 June 10:00, 8 June 10:00.
TimeCands == {-14, 10, 12, 35, 154, 178}

\* The time axes of the file: ascending, with a product inside 1-7 June.
Timelines ==
    {SortedSeq(S) : S \in {S \in SUBSET TimeCands :
        /\ Cardinality(S) \in 1..MaxProducts
        /\ \E t \in S : DayOf(t) \in SliceFirstDay..SliceLastDay}}

RegionNames == <<"Bretagne", "Normandie", "Occitanie", "Grand Est", "Corse">>

\* The grid points inside a box of grid rows and columns.
Box(i1, i2, j1, j2) ==
    {<<LonCoord(j), LatCoord(i)>> : i \in i1..i2, j \in j1..j2}

\* A region that lies outside the grid.
Outside == {<<LonCoord(0), LatCoord(0)>>}

Boxes(nlat, nlon) ==
    {Box(i1, i2, j1, j2) : i1 \in 1..nlat, i2 \in 1..nlat, j1 \in 1..nlon, j2 \in 1..nlon}
        \ {{}}

Full(nlat, nlon) == Box(0, nlat + 1, 0, nlon + 1)

Pattern(s, i, j) == Q(1 + ((i * j + s) % MaxVal))

MkFile(times, nlat, nlon, values) ==
    [time |-> times, latitude |-> [i \in 1..nlat |-> LatCoord(i)],
     longitude |-> [j \in 1..nlon |-> LonCoord(j)], values |-> values,
     attrs |-> FileAttrs]

MkShp(geometries) ==
    [r \in 1..Len(geometries) |-> [nom |-> RegionNames[r], geometry |-> geometries[r]]]

\* A one-cell grid with any time axis and any values.
InputsTimeline ==
    /\ \E tl \in Timelines : \E v \in [1..Len(tl) -> RawVals] :
           ncfile = MkFile(tl, 1, 1, [k \in 1..Len(tl) |-> <<<<v[k]>>>>])
    /\ shp = MkShp(<<Full(1, 1)>>)
    /\ fs = [dirs |-> {}, files |-> {}]

\* Grids of every shape, with regions that are boxes of grid points.
InputsRegions ==
    /\ \E nlat \in 1..MaxLat, nlon \in 1..MaxLon :
         /\ ncfile = MkFile(<<10, 35>>, nlat, nlon,
                [k \in 1..2 |-> [i \in 1..nlat |-> [j \in 1..nlon |-> Pattern(k, i, j)]]])
         /\ \E n \in 1..MaxRegions :
            \E first \in Boxes(nlat, nlon) \cup {Outside} :
            \E rest \in [2..n -> {Outside, Full(nlat, nlon)}] :
                shp = MkShp([r \in 1..n |-> IF r = 1 THEN first ELSE rest[r]])
    /\ fs \in {[dirs |-> {}, files |-> {}],
               [dirs |-> {folder_plots},
                files |-> {Path("france_global_NO2"), Path("old_plot")}]}

\* Grids of every shape, with missing cells.
InputsHoles ==
    /\ \E nlat \in 1..MaxLat, nlon \in 1..MaxLon :
       \E s \in 0..(MaxVal - 1) :
       \E hole \in ((1..nlat) \X (1..nlon)) \cup {<<0, 0>>} :
       \E gap \in BOOLEAN :
         /\ ncfile = MkFile(<<10, 35>>, nlat, nlon,
                <<[i \in 1..nlat |-> [j \in 1..nlon |->
                      IF <<i, j>> = hole THEN NaN ELSE Pattern(s, i, j)]],
                  [i \in 1..nlat |-> [j \in 1..nlon |->
                      IF gap /\ <<i, j>> = <<1, 1>> THEN NaN ELSE Pattern(1, i, j)]]>>)
         /\ shp = MkShp(<<Box(nlat, nlat, 1, nlon), Full(nlat, nlon)>>)
    /\ fs = [dirs |-> {folder_plots}, files |-> {}]

\* A 2 x 2 grid with any values.
InputsField ==
    /\ \E v \in [(1..2) \X (1..2) -> RawVals] :
           ncfile = MkFile(<<35>>, 2, 2,
                           <<[i \in 1..2 |-> [j \in 1..2 |-> v[<<i, j>>]]]>>)
    /\ shp = MkShp(<<Box(1, 2, 1, 1)>>)
    /\ fs = [dirs |-> {}, files |-> {}]

Init ==
    /\ pc = "load"
    /\ err = ""
    /\ written = <<>>
    /\ loads = 0
    /\ DS = NoDS
    /\ LABEL = <<"", "">>
    /\ records = <<>>
    /\ val_min = NaN
    /\ val_max = NaN
    /\ boxes_months = <<>>
    /\ boxes_weekday = <<>>
    /\ DS_month = NoDS
    /\ fig = NoFig
    /\ im = <<>>
    /\ \/ InputsTimeline
       \/ InputsRegions
       \/ InputsHoles
       \/ InputsField

Next ==
    \/ LoadDataset
    \/ DailyResample
    \/ TimeSlice
    \/ SetAttrs
    \/ Makedirs
    \/ GlobalMap
    \/ SaveGlobalMap
    \/ ReadShapefile
    \/ KeepMinMax
    \/ RegionMaps
    \/ SaveRegionMaps
    \/ BoxesMonths
    \/ MonthlyBoxplot
    \/ SaveMonthlyBoxplot
    \/ BoxesWeekday
    \/ WeekdayBoxplot
    \/ SaveWeekdayBoxplot
    \/ MonthlyResample
    \/ KeepMonthMinMax
    \/ MonthMaps
    \/ SaveMonthMaps
    \/ DottedMap
    \/ SaveDottedMap
    \/ PIEvolution
    \/ SavePIEvolution

Spec == Init /\ [][Next]_vars

(***************************************************************************)
(* Properties.                                                             *)
(***************************************************************************)
Daily(ds) == \A k \in 1..NTime(ds) : ds.time[k] % HoursPerDay = 0

Selected(ds) ==
    \A k \in 1..NTime(ds) : DayOf(ds.time[k]) \in SliceFirstDay..SliceLastDay

\* The plot each image file holds.
KindOf(name) ==
    CASE name = "france_global_NO2" -> "global"
      [] name = "regions_global_NO2" -> "regions"
      [] name = "box_plot_NO2" -> "box_months"
      [] name = "box_plot_weekdays_NO2" -> "box_weekdays"
      [] name = "france_month_global_NO2" -> "months"
      [] name = "dotted_france_global_NO2" -> "dotted"
      [] name = "evol_points_interet_NO2" -> "evol"
      [] OTHER -> "none"

\* What a rendered figure shows is computed from the dataset ds.
FromDataset(f, ds) ==
    CASE f.kind = "global" -> f.values = MeanTime(ds)
      [] f.kind = "regions" ->
            /\ \A r \in 1..Len(f.masks) : Len(f.masks[r]) = NLat(ds)
            /\ \A a \in 1..Len(f.axes) :
                   /\ Range(f.axes[a].latitude) \subseteq Range(ds.latitude)
                   /\ Range(f.axes[a].longitude) \subseteq Range(ds.longitude)
      [] f.kind = "box_months" -> Len(Flatten(f.boxes)) = NTime(ds)
      [] f.kind = "box_weekdays" -> Len(Flatten(f.boxes)) = NTime(ds)
      \* a run holds one month, whose mean is the temporal mean
      [] f.kind = "months" ->
            \A m \in 1..Len(f.axes) :
                f.axes[m].values = MeanTime(ds) /\ f.axes[m].latitude = ds.latitude
      [] f.kind = "dotted" -> f.values = MeanTime(ds)
      [] f.kind = "evol" ->
            \A i \in 1..Len(f.lines) :
                /\ f.lines[i].latitude \in Range(ds.latitude)
                /\ f.lines[i].longitude \in Range(ds.longitude)
      [] OTHER -> FALSE

LoadedOnceThenReadOnly ==
    [][/\ loads' <= 1
       /\ pc' = "done" => loads' = 1
       /\ pc \notin {"load", "resample", "sel"} =>
              /\ DS'.time = DS.time
              /\ DS'.latitude = DS.latitude
              /\ DS'.longitude = DS.longitude
              /\ DS'.values = DS.values
              /\ DS'.attrs # DS.attrs => pc = "attrs"]_vars

\* A complete run whose dataset has several entries and carries the
\* attributes set by the run.
LoadedOnceWitness ==
    /\ pc = "done"
    /\ loads = 1
    /\ NTime(DS) > 1
    /\ DS.attrs.units = "mol/m$^{2}$"
    /\ DS.attrs # ncfile.attrs

\* The sum of the values f[p], p in the finite set P.
RECURSIVE Total(_, _)
Total(f, P) ==
    IF P = {} THEN Q(0)
    ELSE LET p == CHOOSE x \in P : TRUE IN Add(f[p], Total(f, P \ {p}))

\* C3: after the daily resample the time axis holds days, each at most
\* once, every product's day among them; and for every day and every cell
\* the value is the mean of the non-missing values of the products of that
\* day, missing when there is none.
DailyMeanOfProducts ==
    pc = "sel" =>
        /\ Daily(DS)
        /\ \A k, m \in 1..NTime(DS) : k < m => DS.time[k] < DS.time[m]
        /\ \A p \in 1..NTime(ncfile) :
               \E k \in 1..NTime(DS) : DayOf(DS.time[k]) = DayOf(ncfile.time[p])
        /\ \A k \in 1..NTime(DS), i \in 1..NLat(DS), j \in 1..NLon(DS) :
               LET P == {p \in 1..NTime(ncfile) :
                            /\ DayOf(ncfile.time[p]) = DayOf(DS.time[k])
                            /\ ~IsNaN(ncfile.values[p][i][j])}
                   raw == [p \in 1..NTime(ncfile) |-> ncfile.values[p][i][j]]
                   v == DS.values[k][i][j]
               IN  IF P = {} THEN IsNaN(v)
                   ELSE /\ ~IsNaN(v)
                        /\ v[1] * Total(raw, P)[2] * Cardinality(P)
                               = Total(raw, P)[1] * v[2]

\* Two products of one day that differ, a product with a missing value on
\* a day with another product, and a day without any product.
DailyMeanWitness ==
    /\ pc = "sel"
    /\ \E p, q \in 1..NTime(ncfile) :
           /\ p # q
           /\ DayOf(ncfile.time[p]) = DayOf(ncfile.time[q])
           /\ IsNaN(ncfile.values[p][1][1])
           /\ ~IsNaN(ncfile.values[q][1][1])
    /\ \E k \in 1..NTime(DS) :
           \A p \in 1..NTime(ncfile) : DayOf(ncfile.time[p]) # DayOf(DS.time[k])
    /\ NTime(DS) > NTime(ncfile)

\* C4: the time-slice selection keeps exactly the entries dated 2020-06-01
\* to 2020-06-07, with their values and in their order, and removes every
\* other entry; the grid axes are left as they were.
SliceKeepsExactlyTheWeek ==
    [][pc = "sel" =>
        LET keep == {k \in 1..NTime(DS) :
                        /\ DayOf(DS.time[k]) >= SliceFirstDay
                        /\ DayOf(DS.time[k]) <= SliceLastDay}
        IN  /\ NTime(DS') = Cardinality(keep)
            /\ Len(DS'.values) = Cardinality(keep)
            /\ \A k \in keep : \E m \in 1..NTime(DS') :
                   /\ DS'.time[m] = DS.time[k]
                   /\ DS'.values[m] = DS.values[k]
            /\ \A m, n \in 1..NTime(DS') : m < n => DS'.time[m] < DS'.time[n]
            /\ DS'.latitude = DS.latitude
            /\ DS'.longitude = DS.longitude]_vars

\* The slice has run on a dataset with entries before 1 June, on 7 June and
\* after 7 June.
SliceWitness ==
    /\ pc = "attrs"
    /\ \E p \in 1..NTime(ncfile) : DayOf(ncfile.time[p]) < SliceFirstDay
    /\ \E p \in 1..NTime(ncfile) : DayOf(ncfile.time[p]) > SliceLastDay
    /\ \E k \in 1..NTime(DS) : DayOf(DS.time[k]) = SliceLastDay
    /\ NTime(DS) = DaysPerWeek

\* C5: for every region record and every grid cell (i, j) the region's mask
\* has the shape (latitudes, longitudes) and is true at (i, j) exactly when
\* the point (DS.longitude[j], DS.latitude[i]) lies inside the region.
MaskAddressesItsCell ==
    fig.kind = "regions" =>
        /\ Len(fig.masks) = Len(records)
        /\ \A r \in 1..Len(records) :
               /\ Len(fig.masks[r]) = NLat(DS)
               /\ \A i \in 1..NLat(DS) :
                      /\ Len(fig.masks[r][i]) = NLon(DS)
                      /\ \A j \in 1..NLon(DS) :
                             fig.masks[r][i][j] <=>
                                 <<DS.longitude[j], DS.latitude[i]>>
                                     \in records[r].geometry

\* The masks of a non-square grid, for a region that holds some grid points
\* and not others.
MaskWitness ==
    /\ fig.kind = "regions"
    /\ NLat(DS) > 1
    /\ NLon(DS) > NLat(DS)
    /\ \E r \in 1..Len(records) :
           /\ \E i \in 1..NLat(DS), j \in 1..NLon(DS) : fig.masks[r][i][j]
           /\ \E i \in 1..NLat(DS), j \in 1..NLon(DS) : ~fig.masks[r][i][j]

\* The non-missing values of a grid.
Present(grid) == {v \in Range(Flatten(grid)) : ~IsNaN(v)}

\* lo and hi are the least and the greatest of the finite set of values S,
\* both NaN when S is empty.
Limits(lo, hi, S) ==
    IF S = {} THEN IsNaN(lo) /\ IsNaN(hi)
    ELSE /\ lo \in S
         /\ hi \in S
         /\ \A v \in S : Leq(lo, v) /\ Leq(v, hi)

\* C6: every regional sub-map is drawn with the same limits, the minimum
\* and the maximum of the temporal mean over the non-missing cells of the
\* whole grid, and every non-missing cell drawn in a sub-map is the temporal
\* mean of its grid cell and lies within the limits.
RegionLegendConsistent ==
    fig.kind = "regions" =>
        \A a \in 1..Len(fig.axes) :
            LET ax == fig.axes[a]
            IN  /\ Limits(ax.vmin, ax.vmax, Present(MeanTime(DS)))
                /\ \A b \in 1..Len(fig.axes) :
                       fig.axes[b].vmin = ax.vmin /\ fig.axes[b].vmax = ax.vmax
                /\ \A i \in 1..Len(ax.latitude), j \in 1..Len(ax.longitude) :
                       LET v == ax.values[i][j]
                       IN  ~IsNaN(v) =>
                               /\ Leq(ax.vmin, v)
                               /\ Leq(v, ax.vmax)
                               /\ \E gi \in 1..NLat(DS), gj \in 1..NLon(DS) :
                                      /\ DS.latitude[gi] = ax.latitude[i]
                                      /\ DS.longitude[gj] = ax.longitude[j]
                                      /\ MeanTime(DS)[gi][gj] = v

\* Two sub-maps, one of them of a region whose own least value is above the
\* limit it is drawn with, on a grid with a missing cell.
RegionLegendWitness ==
    /\ fig.kind = "regions"
    /\ Len(fig.axes) >= 2
    /\ \E a \in 1..Len(fig.axes) :
           /\ Present(fig.axes[a].values) # {}
           /\ \A v \in Present(fig.axes[a].values) :
                  ~Leq(v, fig.axes[a].vmin)
    /\ \E v \in Range(Flatten(MeanTime(DS))) : IsNaN(v)

\* C7: every monthly map is drawn with the same limits, the minimum and the
\* maximum of the monthly means over all months and all non-missing cells,
\* and every non-missing cell of every monthly map lies within them.
MonthLegendBounds ==
    fig.kind = "months" =>
        /\ Len(fig.axes) = NTime(DS_month)
        /\ \A m \in 1..Len(fig.axes) :
               LET ax == fig.axes[m]
               IN  /\ Limits(ax.vmin, ax.vmax,
                             UNION {Present(DS_month.values[n]) :
                                        n \in 1..NTime(DS_month)})
                   /\ ax.values = DS_month.values[m]
                   /\ \A v \in Present(ax.values) :
                          Leq(ax.vmin, v) /\ Leq(v, ax.vmax)

\* A monthly map with a missing cell and with distinct limits.
MonthLegendWitness ==
    /\ fig.kind = "months"
    /\ Len(fig.axes) >= 1
    /\ ~IsNaN(fig.axes[1].vmin)
    /\ fig.axes[1].vmin # fig.axes[1].vmax
    /\ \E v \in Range(Flatten(fig.axes[1].values)) : IsNaN(v)

\* The spatially averaged values of the entries of ds that fall on weekday
\* d, in time order.
OnWeekday(ds, d) ==
    LET idx == Indices([k \in 1..NTime(ds) |-> DayOf(ds.time[k]) % DaysPerWeek = d])
    IN  [k \in 1..Len(idx) |-> SpatialMean(ds)[idx[k]]]

\* C8: in the weekday boxplot every box carries a tick label, and the box
\* that carries the label of weekday d (Mon = 0 .. Sun = 6) holds exactly
\* the spatially averaged values of the entries that fall on weekday d,
\* also when some weekday has no entry.
WeekdayBoxesMatchLabels ==
    fig.kind = "box_weekdays" =>
        /\ Len(fig.ticklabels) = Len(fig.boxes)
        /\ \A k \in 1..Len(fig.boxes) :
               \E d \in 0..(DaysPerWeek - 1) :
                   /\ fig.ticklabels[k] = WEEKDAYS_LABEL[d + 1]
                   /\ fig.boxes[k] = OnWeekday(DS, d)
        /\ \A d \in 0..(DaysPerWeek - 1) :
               OnWeekday(DS, d) # <<>> =>
                   \E k \in 1..Len(fig.boxes) :
                       fig.ticklabels[k] = WEEKDAYS_LABEL[d + 1]

\* The same statement for the datasets that hold every weekday.
WeekdayBoxesMatchLabelsFullWeek ==
    (\A d \in 0..(DaysPerWeek - 1) : OnWeekday(DS, d) # <<>>)
        => WeekdayBoxesMatchLabels

\* The names of the images of a run.
ImageNames ==
    {"france_global_NO2", "regions_global_NO2", "box_plot_NO2",
     "box_plot_weekdays_NO2", "france_month_global_NO2",
     "dotted_france_global_NO2", "evol_points_interet_NO2"}

\* C9: the plots folder exists before any image is written, creating it
\* when it exists already is not an error, every image is written into that
\* folder with the format 'tiff', no two writes of a run go to the same
\* file, and a complete run writes exactly seven images.
SevenImagesInPlotsFolder ==
    /\ written # <<>> => "plots" \in fs.dirs
    /\ pc \notin {"load", "resample", "sel", "attrs", "makedirs"} =>
           "plots" \in fs.dirs
    /\ err \notin {"FileExistsError", "FileNotFoundError"}
    /\ \A k \in 1..Len(written) :
           /\ written[k].path[1] = "plots"
           /\ written[k].path[3] = "tiff"
           /\ written[k].path[2] \in ImageNames
           /\ written[k].path \in fs.files
    /\ \A k, m \in 1..Len(written) :
           k # m => written[k].path # written[m].path
    /\ pc = "done" => Cardinality({written[k].path : k \in 1..Len(written)}) = 7

\* A complete run that started with the plots folder in place, a file of an
\* earlier run in it.
SevenImagesWitness ==
    /\ pc = "done"
    /\ Len(written) = 7
    /\ Path("old_plot") \in fs.files

\* C10: the point-of-interest plot has one line per point: the i-th line
\* carries the label LABEL_POINTS[i] and shows the monthly means of the grid
\* cell whose latitude is a grid latitude nearest to lat_points[i] and whose
\* longitude is a grid longitude nearest to lon_points[i].
OneSeriesPerPoint ==
    fig.kind = "evol" =>
        /\ Len(fig.lines) = 5
        /\ \A i \in 1..Len(fig.lines) :
               LET ln == fig.lines[i]
               IN  /\ ln.label = LABEL_POINTS[i]
                   /\ \E a \in 1..NLat(DS), b \in 1..NLon(DS) :
                          /\ DS.latitude[a] = ln.latitude
                          /\ DS.longitude[b] = ln.longitude
                          /\ \A c \in 1..NLat(DS) :
                                 Dist(DS.latitude[a], lat_points[i])
                                     <= Dist(DS.latitude[c], lat_points[i])
                          /\ \A c \in 1..NLon(DS) :
                                 Dist(DS.longitude[b], lon_points[i])
                                     <= Dist(DS.longitude[c], lon_points[i])
                          /\ Len(ln.y) = NTime(DS_month)
                          /\ \A m \in 1..NTime(DS_month) :
                                 ln.y[m] = DS_month.values[m][a][b]

\* Lines taken from different rows and different columns of the grid, with
\* different values.
OneSeriesWitness ==
    /\ fig.kind = "evol"
    /\ \E i, k \in 1..Len(fig.lines) :
           /\ fig.lines[i].latitude # fig.lines[k].latitude
           /\ fig.lines[i].longitude # fig.lines[k].longitude
           /\ fig.lines[i].y # fig.lines[k].y
           /\ fig.lines[i].y # <<>>

=============================================================================
